---- MODULE Spec2Model ----
(***************************************************************************)
(* Model of the Qm.n fixed-point library that scripts/generate_headers.py  *)
(* and scripts/generate_math_headers.py emit.  The generators are          *)
(* templates: for a format (m, n) they select a storage type and write C   *)
(* functions over it.  A state of the model is a format, the arguments of  *)
(* one emitted function and the value that function returns; the sin/cos   *)
(* range-reduction loops are modelled one iteration per step.              *)
(*                                                                         *)
(* C semantics used throughout: operands narrower than int are promoted to *)
(* int, so the arithmetic of an expression is exact and the value is       *)
(* reduced modulo 2^W only where it is stored into, cast to or returned as *)
(* the W-bit storage type; >> on a negative value is an arithmetic shift.  *)
(* The evaluated formats are those with 8- and 16-bit storage, for which   *)
(* every intermediate value fits a 32-bit int.                             *)
(***************************************************************************)
EXTENDS Integers, Sequences, FiniteSets

\* m_bits, n_bits : the format the generators were run for
\* pi_raw         : the value the build gives the Q_PI macro (0 in the
\*                  specifications whose operations do not read Q_PI)
\* op             : the emitted function that was called last
\* a, b           : its arguments
\* res            : the value it returned
\* pc             : control point of the call (sin/cos loops, sqrt)
\* angle          : the local variable angle of q_sin / q_cos
\* emitted        : what the generators have written for the format
VARIABLES m_bits, n_bits, pi_raw, op, a, b, res, pc, angle, emitted

vars == <<m_bits, n_bits, pi_raw, op, a, b, res, pc, angle, emitted>>

(* ---------------------------- bounds ----------------------------------- *)

MaxM == 7
MaxN == 15
MaxGenM == 9
MaxGenN == 18
MaxTurns == 22

\* storage widths whose formats are evaluated (all values fit a 32-bit int)
ModelWidths == {8, 16}

(* ------------------------ C integer helpers ---------------------------- *)

Abs(x) == IF x < 0 THEN -x ELSE x

\* conversion of an int value to the W-bit signed storage type
ToSigned(v, W) ==
    LET u == v % (2^W)
    IN  IF u >= 2^(W-1) THEN u - 2^W ELSE u

\* C integer division: truncation toward zero
TruncDiv(x, y) ==
    LET q == Abs(x) \div Abs(y)
    IN  IF (x < 0) # (y < 0) THEN -q ELSE q

\* x >> i on a signed value (arithmetic shift)
Shr(x, i) == x \div (2^i)

RECURSIVE AndU(_, _, _)
AndU(x, y, k) ==
    IF k = 0 THEN 0
    ELSE (x % 2) * (y % 2) + 2 * AndU(x \div 2, y \div 2, k - 1)

\* x & y, as seen through the W-bit storage type the result is returned in
BitAnd(x, y, W) == ToSigned(AndU(x % (2^W), y % (2^W), W), W)

\* ~x
BitNot(x) == -x - 1

(* ------------------------ format selection ----------------------------- *)

\* storage_bits of generate_header; 0 stands for the skipped format
StorageBits(m, n) ==
    LET total_bits == m + n + 1
    IN  IF total_bits <= 8 THEN 8
        ELSE IF total_bits <= 16 THEN 16
        ELSE IF total_bits <= 32 THEN 32
        ELSE IF total_bits <= 64 THEN 64
        ELSE 0

\* INT8_MAX, INT16_MAX, INT32_MAX of <stdint.h>
IntMax(W) ==
    CASE W = 8  -> 127
      [] W = 16 -> 32767
      [] W = 32 -> 2147483647

\* INT8_MIN, INT16_MIN, INT32_MIN of <stdint.h>
IntMin(W) == -IntMax(W) - 1

\* Q_MAX / Q_MIN of the arithmetic header: the storage type's bounds
Q_MAX(m, n) == IntMax(StorageBits(m, n))
Q_MIN(m, n) == IntMin(StorageBits(m, n))

\* Q_ONE: (type)(1 << n)
Q_ONE(m, n) == ToSigned(2^n, StorageBits(m, n))

Formats ==
    {f \in (0..MaxM) \X (0..MaxN) : StorageBits(f[1], f[2]) \in ModelWidths}

\* values of the storage type the operations are applied to
Samples(m, n) ==
    LET lo == Q_MIN(m, n)
        hi == Q_MAX(m, n)
        one == 2^n
        half == 2^n \div 2
        pts == {0, 1, 2, 3, half, one - 1, one, one + 1, one + half,
                2 * one, 3 * one + 1, (hi + 1) \div 4, hi \div 2,
                hi - one, hi - 1, hi}
    IN  {x \in pts \cup {-p : p \in pts} \cup {lo, lo + 1} : lo <= x /\ x <= hi}

(* =========================== Arithmetic Core =========================== *)

q_add_saturating(x, y, m, n) ==
    LET s == x + y
    IN  IF s > Q_MAX(m, n) THEN Q_MAX(m, n)
        ELSE IF s < Q_MIN(m, n) THEN Q_MIN(m, n) ELSE s

\* (storage)((unsigned)a + (unsigned)b)
q_add(x, y, m, n) ==
    LET W == StorageBits(m, n)
    IN  ToSigned((x % (2^W)) + (y % (2^W)), W)

\* (storage)((unsigned)a - (unsigned)b)
q_sub(x, y, m, n) ==
    LET W == StorageBits(m, n)
    IN  ToSigned((x % (2^W)) - (y % (2^W)), W)

\* (storage)((prod + (1 << (n-1))) >> n), n >= 1
q_mul(x, y, m, n) ==
    LET prod == x * y
    IN  ToSigned(Shr(prod + 2^(n-1), n), StorageBits(m, n))

q_div_zero_max(x, y, m, n) ==
    IF y = 0 THEN Q_MAX(m, n)
    ELSE ToSigned(TruncDiv(x * (2^n), y), StorageBits(m, n))

\* b == 0 saturates; else (storage)(((wide)a << n) / b)
q_div(x, y, m, n) ==
    IF y = 0 THEN (IF x >= 0 THEN Q_MAX(m, n) ELSE Q_MIN(m, n))
    ELSE LET dividend == x * (2^n)
         IN  ToSigned(TruncDiv(dividend, y), StorageBits(m, n))

NoEmit == [kind |-> "none"]

InitArith ==
    /\ \E f \in Formats :
         /\ m_bits = f[1]
         /\ n_bits = f[2]
         /\ a \in Samples(f[1], f[2])
         /\ b \in Samples(f[1], f[2])
    /\ pi_raw = 0
    /\ op = "none"
    /\ res = 0
    /\ pc = "idle"
    /\ angle = 0
    /\ emitted = NoEmit

Add ==
    /\ op' = "add"
    /\ res' = q_add(a, b, m_bits, n_bits)
    /\ UNCHANGED <<m_bits, n_bits, pi_raw, a, b, pc, angle, emitted>>

Sub ==
    /\ op' = "sub"
    /\ res' = q_sub(a, b, m_bits, n_bits)
    /\ UNCHANGED <<m_bits, n_bits, pi_raw, a, b, pc, angle, emitted>>

Div ==
    /\ op' = "div"
    /\ res' = q_div(a, b, m_bits, n_bits)
    /\ UNCHANGED <<m_bits, n_bits, pi_raw, a, b, pc, angle, emitted>>

NextArith == Add \/ Sub \/ Div

SpecArith == InitArith /\ [][NextArith]_vars

\* C1: add and sub return the exact sum and difference reduced modulo
\* 2^storage_width into [MIN, MAX] (wraparound, no saturation), and
\* add(MAX, 1) is MIN.
C1_AddSubWrap ==
    LET W == StorageBits(m_bits, n_bits)
    IN  /\ op = "add" =>
             /\ Q_MIN(m_bits, n_bits) <= res /\ res <= Q_MAX(m_bits, n_bits)
             /\ (res - (a + b)) % (2^W) = 0
             /\ (a = Q_MAX(m_bits, n_bits) /\ b = 1) => res = Q_MIN(m_bits, n_bits)
        /\ op = "sub" =>
             /\ Q_MIN(m_bits, n_bits) <= res /\ res <= Q_MAX(m_bits, n_bits)
             /\ (res - (a - b)) % (2^W) = 0

\* Q7.8: add(32767, 1) has been applied and returned -32768
C1_Witness ==
    /\ m_bits = 7 /\ n_bits = 8
    /\ op = "add" /\ a = 32767 /\ b = 1 /\ res = -32768

\* C2: div(x, 0) is MAX for x >= 0 and MIN for x < 0; for b # 0 the result
\* is the quotient of a * 2^n by b truncated toward zero, narrowed to the
\* storage width.
C2_DivSaturatesOnZero ==
    op = "div" =>
      IF b = 0
      THEN res = (IF a >= 0 THEN Q_MAX(m_bits, n_bits) ELSE Q_MIN(m_bits, n_bits))
      ELSE LET c == (Abs(a) * (2^n_bits)) \div Abs(b)
           IN  \E q \in {c - 1, c, c + 1, -(c - 1), -c, -(c + 1)} :
                 /\ Abs(q) * Abs(b) <= Abs(a) * (2^n_bits)
                 /\ Abs(a) * (2^n_bits) < (Abs(q) + 1) * Abs(b)
                 /\ (q > 0 => (a > 0) = (b > 0))
                 /\ (q < 0 => (a > 0) # (b > 0))
                 /\ Q_MIN(m_bits, n_bits) <= res /\ res <= Q_MAX(m_bits, n_bits)
                 /\ (res - q) % (2^StorageBits(m_bits, n_bits)) = 0

\* a negative value has been divided by zero and MIN came back, in Q7.8
C2_Witness ==
    /\ m_bits = 7 /\ n_bits = 8
    /\ op = "div" /\ b = 0 /\ a < 0 /\ res = -32768

(* ============================ Rounding Core ============================ *)

\* Q_HALF: (type)(1LL << (n - 1)).  For n = 0 the shift count is -1, which
\* the builds in use (masked 64-bit shift, constant folding) turn into a
\* value whose low W bits are zero.
Q_HALF(m, n) ==
    IF n = 0 THEN 0 ELSE ToSigned(2^(n-1), StorageBits(m, n))

\* const type frac_mask = Q_ONE - 1
frac_mask(m, n) == ToSigned(Q_ONE(m, n) - 1, StorageBits(m, n))

q_floor(x, m, n) ==
    LET W == StorageBits(m, n)
    IN  IF x >= 0
        THEN BitAnd(x, BitNot(frac_mask(m, n)), W)
        ELSE IF BitAnd(x, frac_mask(m, n), W) # 0
             THEN ToSigned(BitAnd(x, BitNot(frac_mask(m, n)), W) - Q_ONE(m, n), W)
             ELSE x

q_ceil(x, m, n) ==
    LET W == StorageBits(m, n)
    IN  IF x >= 0
        THEN IF BitAnd(x, frac_mask(m, n), W) # 0
             THEN ToSigned(BitAnd(x, BitNot(frac_mask(m, n)), W) + Q_ONE(m, n), W)
             ELSE x
        ELSE BitAnd(x, BitNot(frac_mask(m, n)), W)

q_round(x, m, n) ==
    LET W == StorageBits(m, n)
    IN  IF x >= 0
        THEN BitAnd(x + Q_HALF(m, n), BitNot(Q_ONE(m, n) - 1), W)
        ELSE BitAnd(x - Q_HALF(m, n), BitNot(Q_ONE(m, n) - 1), W)

q_trunc(x, m, n) ==
    BitAnd(x, BitNot(Q_ONE(m, n) - 1), StorageBits(m, n))

\* arguments of the one-argument functions: every value of an 8-bit
\* storage type, the sampled values of a 16-bit one
Values(m, n) ==
    IF StorageBits(m, n) = 8 THEN Q_MIN(m, n)..Q_MAX(m, n) ELSE Samples(m, n)

InitRound ==
    /\ \E f \in Formats :
         /\ m_bits = f[1]
         /\ n_bits = f[2]
         /\ a \in Values(f[1], f[2])
    /\ b = 0
    /\ pi_raw = 0
    /\ op = "none"
    /\ res = 0
    /\ pc = "idle"
    /\ angle = 0
    /\ emitted = NoEmit

Floor ==
    /\ op' = "floor"
    /\ res' = q_floor(a, m_bits, n_bits)
    /\ UNCHANGED <<m_bits, n_bits, pi_raw, a, b, pc, angle, emitted>>

Ceil ==
    /\ op' = "ceil"
    /\ res' = q_ceil(a, m_bits, n_bits)
    /\ UNCHANGED <<m_bits, n_bits, pi_raw, a, b, pc, angle, emitted>>

Round ==
    /\ op' = "round"
    /\ res' = q_round(a, m_bits, n_bits)
    /\ UNCHANGED <<m_bits, n_bits, pi_raw, a, b, pc, angle, emitted>>

Trunc ==
    /\ op' = "trunc"
    /\ res' = q_trunc(a, m_bits, n_bits)
    /\ UNCHANGED <<m_bits, n_bits, pi_raw, a, b, pc, angle, emitted>>

NextRound == Floor \/ Ceil \/ Round \/ Trunc

SpecRound == InitRound /\ [][NextRound]_vars

\* C3: for x with x + HALF and x - HALF inside the storage range, round(x)
\* is the multiple of ONE nearest to x, ties going away from zero (so a
\* multiple of ONE, negative ones included, is returned unchanged).
C3_RoundHalfAwayFromZero ==
    LET one == 2^n_bits
    IN  (/\ op = "round"
         /\ 2 * Q_MIN(m_bits, n_bits) <= 2 * a - one
         /\ 2 * a + one <= 2 * Q_MAX(m_bits, n_bits))
        => /\ res % one = 0
           /\ 2 * Abs(res - a) <= one
           /\ (2 * Abs(res - a) = one => Abs(res) > Abs(a))

\* C4: for x at least ONE away from MIN and MAX, floor(x) is the greatest
\* multiple of ONE that is <= x and ceil(x) the least multiple of ONE that
\* is >= x.
C4_FloorCeilBracket ==
    LET one == 2^n_bits
        inside == /\ Q_MIN(m_bits, n_bits) + one <= a
                  /\ a <= Q_MAX(m_bits, n_bits) - one
    IN  /\ (op = "floor" /\ inside) =>
              (res % one = 0 /\ res <= a /\ a < res + one)
        /\ (op = "ceil" /\ inside) =>
              (res % one = 0 /\ res - one < a /\ a <= res)

(* ========================= Constant Generator ========================== *)

\* 3.14159265358979323846, 0.60725293500888 and atan(2^-i), i = 0..31,
\* scaled by 2^28 and truncated: int(c * (1 << n)) is the value below
\* shifted right by 28 - n, for every n <= 28
PiQ28 == 843314856
KQ28 == 163008218
AtanQ28 ==
    <<210828714, 124459457, 65760959, 33381289, 16755421, 8385878, 4193962,
      2097109, 1048570, 524287, 262143, 131071, 65535, 32767, 16383, 8191,
      4095, 2047, 1023, 511, 255, 127, 63, 31, 15, 7, 3, 2, 1, 0, 0, 0>>

Min(x, y) == IF x < y THEN x ELSE y

\* the PI constant is representable in the storage type
PiFits(m, n) == PiQ28 \div (2^(28 - n)) <= Q_MAX(m, n)

\* Q_PI: (type)(3.14159265358979323846 * (1LL << n)).  When the product
\* exceeds the storage type the conversion from double is undefined: a
\* build folds it to the type's maximum or truncates the converted integer
\* to the type's width.
Q_PI(m, n) ==
    LET p == PiQ28 \div (2^(28 - n))
    IN  IF PiFits(m, n) THEN {p}
        ELSE {Q_MAX(m, n), ToSigned(p, StorageBits(m, n))}

\* generate_cordic_tables: k_fixed and atan_table (1-based here)
generate_cordic_tables(n) ==
    [k_fixed |-> KQ28 \div (2^(28 - n)),
     atan_table |-> [i \in 1..Min(n, 32) |-> AtanQ28[i] \div (2^(28 - n))]]

\* #define CORDIC_ITERATIONS min(n, 16)
CORDIC_ITERATIONS(n) == Min(n, 16)

\* #define CORDIC_K ((type)k_fixed)
CORDIC_K(m, n) == ToSigned(generate_cordic_tables(n).k_fixed, StorageBits(m, n))

\* cordic_atan_table[i], i counted from 0 as in the C code
cordic_atan_table(i, m, n) ==
    ToSigned(generate_cordic_tables(n).atan_table[i + 1], StorageBits(m, n))

(* ============================ CORDIC Engine ============================ *)

RECURSIVE rotate_strict(_, _, _, _, _, _)
rotate_strict(i, x_val, y_val, z, m, n) ==
    LET W == StorageBits(m, n)
    IN  IF i >= CORDIC_ITERATIONS(n) THEN <<x_val, y_val>>
        ELSE IF z > 0
             THEN rotate_strict(i + 1,
                      ToSigned(x_val - Shr(y_val, i), W),
                      ToSigned(y_val + Shr(x_val, i), W),
                      ToSigned(z - cordic_atan_table(i, m, n), W), m, n)
             ELSE rotate_strict(i + 1,
                      ToSigned(x_val + Shr(y_val, i), W),
                      ToSigned(y_val - Shr(x_val, i), W),
                      ToSigned(z + cordic_atan_table(i, m, n), W), m, n)

\* the loop of cordic_rotate from iteration i on; returns <<x, y>>
RECURSIVE rotate_loop(_, _, _, _, _, _)
rotate_loop(i, x_val, y_val, z, m, n) ==
    LET W == StorageBits(m, n)
    IN  IF i >= CORDIC_ITERATIONS(n) THEN <<x_val, y_val>>
        ELSE IF z >= 0
             THEN rotate_loop(i + 1,
                      ToSigned(x_val - Shr(y_val, i), W),
                      ToSigned(y_val + Shr(x_val, i), W),
                      ToSigned(z - cordic_atan_table(i, m, n), W), m, n)
             ELSE rotate_loop(i + 1,
                      ToSigned(x_val + Shr(y_val, i), W),
                      ToSigned(y_val - Shr(x_val, i), W),
                      ToSigned(z + cordic_atan_table(i, m, n), W), m, n)

cordic_rotate(z, m, n) == rotate_loop(0, CORDIC_K(m, n), 0, z, m, n)

\* the loop of cordic_vector from iteration i on; returns z
RECURSIVE vector_loop(_, _, _, _, _, _)
vector_loop(i, x, y, z, m, n) ==
    LET W == StorageBits(m, n)
    IN  IF i >= CORDIC_ITERATIONS(n) THEN z
        ELSE IF y < 0
             THEN vector_loop(i + 1,
                      ToSigned(x - Shr(y, i), W),
                      ToSigned(y + Shr(x, i), W),
                      ToSigned(z - cordic_atan_table(i, m, n), W), m, n)
             ELSE vector_loop(i + 1,
                      ToSigned(x + Shr(y, i), W),
                      ToSigned(y - Shr(x, i), W),
                      ToSigned(z + cordic_atan_table(i, m, n), W), m, n)

cordic_vector(x, y, m, n) == vector_loop(0, x, y, 0, m, n)

reduce_down_by_pi(ang, pi, m, n) ==
    ToSigned(ang - pi, StorageBits(m, n))

\* angle -= 2 * Q_PI
reduce_down(ang, pi, m, n) ==
    ToSigned(ang - 2 * pi, StorageBits(m, n))

\* angle += 2 * Q_PI
reduce_up(ang, pi, m, n) ==
    ToSigned(ang + 2 * pi, StorageBits(m, n))

\* q_atan2(y, x); pi is the value of Q_PI
q_atan2(y, x, pi, m, n) ==
    LET W == StorageBits(m, n)
        result == cordic_vector(x, y, m, n)
    IN  IF x = 0 /\ y = 0 THEN 0
        ELSE IF x < 0
             THEN IF y >= 0
                  THEN ToSigned(pi - result, W)
                  ELSE ToSigned(-pi + result, W)
             ELSE result

\* q_atan(x) = q_atan2(x, Q_ONE)
q_atan(x, pi, m, n) == q_atan2(x, Q_ONE(m, n), pi, m, n)

\* angles passed to sin and cos: within MaxTurns turns of [-PI, PI], so
\* that a call runs at most MaxTurns iterations of a reduction loop when
\* PI fits
Angles(m, n) ==
    LET p == PiQ28 \div (2^(28 - n))
        lim == MaxTurns * 2 * p + p
        pts == {p - 1, p, p + 1, 2 * p, 2 * p + 1, 3 * p, 3 * p + 1,
                9 * p - 1, lim - 1, lim}
    IN  {x \in Values(m, n) \cup pts \cup {-q : q \in pts} :
            /\ Q_MIN(m, n) <= x /\ x <= Q_MAX(m, n)
            /\ -lim <= x /\ x <= lim}

InitTrig ==
    /\ \E f \in Formats :
         /\ m_bits = f[1]
         /\ n_bits = f[2]
         /\ pi_raw \in Q_PI(f[1], f[2])
    /\ a = 0
    /\ b = 0
    /\ op = "none"
    /\ res = 0
    /\ pc = "idle"
    /\ angle = 0
    /\ emitted = NoEmit

\* q_sin is entered with an argument of the storage type
CallSin ==
    /\ pc = "idle"
    /\ \E x \in Angles(m_bits, n_bits) :
         /\ a' = x
         /\ angle' = x
    /\ op' = "sin"
    /\ pc' = "reduce_down"
    /\ UNCHANGED <<m_bits, n_bits, pi_raw, b, res, emitted>>

\* q_cos is entered with an argument of the storage type
CallCos ==
    /\ pc = "idle"
    /\ \E x \in Angles(m_bits, n_bits) :
         /\ a' = x
         /\ angle' = x
    /\ op' = "cos"
    /\ pc' = "reduce_down"
    /\ UNCHANGED <<m_bits, n_bits, pi_raw, b, res, emitted>>

\* while (angle > PI) angle -= 2 * PI;  one evaluation of the loop test
SinReduceDown ==
    /\ op = "sin" /\ pc = "reduce_down"
    /\ IF angle > pi_raw
       THEN angle' = reduce_down(angle, pi_raw, m_bits, n_bits) /\ pc' = "reduce_down"
       ELSE angle' = angle /\ pc' = "reduce_up"
    /\ UNCHANGED <<m_bits, n_bits, pi_raw, op, a, b, res, emitted>>

\* while (angle < -PI) angle += 2 * PI;  one evaluation of the loop test
SinReduceUp ==
    /\ op = "sin" /\ pc = "reduce_up"
    /\ IF angle < -pi_raw
       THEN angle' = reduce_up(angle, pi_raw, m_bits, n_bits) /\ pc' = "reduce_up"
       ELSE angle' = angle /\ pc' = "reduced"
    /\ UNCHANGED <<m_bits, n_bits, pi_raw, op, a, b, res, emitted>>

\* negate a negative angle, rotate, return y with the sign restored
SinRotate ==
    /\ op = "sin" /\ pc = "reduced"
    /\ LET W == StorageBits(m_bits, n_bits)
           negate == angle < 0
           z == IF negate THEN ToSigned(-angle, W) ELSE angle
           xy == cordic_rotate(z, m_bits, n_bits)
       IN  /\ angle' = z
           /\ res' = IF negate THEN ToSigned(-xy[2], W) ELSE xy[2]
    /\ pc' = "done"
    /\ UNCHANGED <<m_bits, n_bits, pi_raw, op, a, b, emitted>>

CosReduceDown ==
    /\ op = "cos" /\ pc = "reduce_down"
    /\ IF angle > pi_raw
       THEN angle' = reduce_down(angle, pi_raw, m_bits, n_bits) /\ pc' = "reduce_down"
       ELSE angle' = angle /\ pc' = "reduce_up"
    /\ UNCHANGED <<m_bits, n_bits, pi_raw, op, a, b, res, emitted>>

CosReduceUp ==
    /\ op = "cos" /\ pc = "reduce_up"
    /\ IF angle < -pi_raw
       THEN angle' = reduce_up(angle, pi_raw, m_bits, n_bits) /\ pc' = "reduce_up"
       ELSE angle' = angle /\ pc' = "reduced"
    /\ UNCHANGED <<m_bits, n_bits, pi_raw, op, a, b, res, emitted>>

\* take the magnitude of the angle, rotate, return x
CosRotate ==
    /\ op = "cos" /\ pc = "reduced"
    /\ LET W == StorageBits(m_bits, n_bits)
           z == IF angle < 0 THEN ToSigned(-angle, W) ELSE angle
           xy == cordic_rotate(z, m_bits, n_bits)
       IN  /\ angle' = z
           /\ res' = xy[1]
    /\ pc' = "done"
    /\ UNCHANGED <<m_bits, n_bits, pi_raw, op, a, b, emitted>>

NextTrig ==
    \/ CallSin \/ SinReduceDown \/ SinReduceUp \/ SinRotate
    \/ CallCos \/ CosReduceDown \/ CosReduceUp \/ CosRotate

SpecTrig == InitTrig /\ [][NextTrig]_vars

\* one evaluation of a range-reduction loop test, in q_sin or in q_cos
ReduceStep == SinReduceDown \/ SinReduceUp \/ CosReduceDown \/ CosReduceUp

\* a C function runs its next statement: a call that is inside a
\* range-reduction loop is never suspended there
SpecTrigFair == SpecTrig /\ WF_vars(ReduceStep)

\* C5 (as stated): in Q7.8, sin(0) returns raw 0 and cos(0) returns raw 256.
C5_SinCosZeroExact ==
    (m_bits = 7 /\ n_bits = 8 /\ a = 0 /\ pc = "done") =>
        /\ op = "sin" => res = 0
        /\ op = "cos" => res = 256

\* C5 (amended): in Q7.8, with the truncated gain 155 and the truncated
\* 8-entry arctangent table, sin(0) returns raw -1 and cos(0) returns raw
\* 255, one raw unit away from 0 and from ONE.
C5_SinCosZeroWithinOneUnit ==
    (m_bits = 7 /\ n_bits = 8 /\ a = 0 /\ pc = "done") =>
        /\ CORDIC_ITERATIONS(n_bits) = 8
        /\ op = "sin" => res = -1
        /\ op = "cos" => res = 255

\* cos(0) has returned in Q7.8
C5_Witness ==
    /\ m_bits = 7 /\ n_bits = 8
    /\ op = "cos" /\ a = 0 /\ pc = "done" /\ res = 255

InitAtan ==
    /\ \E f \in Formats :
         /\ m_bits = f[1]
         /\ n_bits = f[2]
         /\ pi_raw \in Q_PI(f[1], f[2])
         /\ a \in Samples(f[1], f[2])
         /\ b \in Samples(f[1], f[2])
    /\ op = "none"
    /\ res = 0
    /\ pc = "idle"
    /\ angle = 0
    /\ emitted = NoEmit

\* q_atan2(y = a, x = b)
Atan2 ==
    /\ op' = "atan2"
    /\ res' = q_atan2(a, b, pi_raw, m_bits, n_bits)
    /\ UNCHANGED <<m_bits, n_bits, pi_raw, a, b, pc, angle, emitted>>

\* q_atan(x = a)
Atan ==
    /\ op' = "atan"
    /\ res' = q_atan(a, pi_raw, m_bits, n_bits)
    /\ UNCHANGED <<m_bits, n_bits, pi_raw, a, b, pc, angle, emitted>>

NextAtan == Atan2 \/ Atan

SpecAtan == InitAtan /\ [][NextAtan]_vars

\* raw units allowed for "up to the arctangent table's resolution": two
\* per CORDIC iteration
AtanTol(n) == 2 * CORDIC_ITERATIONS(n)

\* C9: atan2(0, 0) is 0, and otherwise the result lies in the quadrant of
\* (x, y): [-PI/2, PI/2] for x > 0, [PI/2, PI] for x < 0 and y >= 0,
\* [-PI, -PI/2] for x < 0 and y < 0, up to the table's resolution.
C9_Atan2Quadrant ==
    LET p == pi_raw
        h == pi_raw \div 2
        t == AtanTol(n_bits)
    IN  (op = "atan2" /\ PiFits(m_bits, n_bits)) =>
          /\ (a = 0 /\ b = 0) => res = 0
          /\ b > 0 => (-h - t <= res /\ res <= h + t)
          /\ (b < 0 /\ a >= 0) => (h - t <= res /\ res <= p + t)
          /\ (b < 0 /\ a < 0) => (-p - t <= res /\ res <= -h + t)

(* ========================= Transcendental Core ========================= *)

\* while (val > 0) { val >>= 1; bit <<= 1; }  returns bit
RECURSIVE highest_bit(_, _, _)
highest_bit(val, bit, W) ==
    IF val > 0 THEN highest_bit(Shr(val, 1), ToSigned(bit * 2, W), W)
    ELSE bit

\* the Newton-Raphson loop from iteration i on.  A zero guess makes the
\* division ((type)x << n) / guess undefined; the call then does not
\* return a value (dbz).
RECURSIVE newton(_, _, _, _, _)
newton(i, guess, x, m, n) ==
    LET W == StorageBits(m, n)
    IN  IF i >= 4 THEN [guess |-> guess, dbz |-> FALSE]
        ELSE IF guess = 0 THEN [guess |-> guess, dbz |-> TRUE]
        ELSE newton(i + 1,
                    ToSigned(Shr(guess + ToSigned(TruncDiv(x * (2^n), guess), W), 1), W),
                    x, m, n)

q_sqrt(x, m, n) ==
    LET W == StorageBits(m, n)
        bit == highest_bit(x, 1, W)
        seed == Shr(bit, 1)
        guess == IF seed < Q_ONE(m, n) THEN Q_ONE(m, n) ELSE seed
    IN  IF x <= 0 THEN [guess |-> 0, dbz |-> FALSE]
        ELSE newton(0, guess, x, m, n)

InitSqrt ==
    /\ \E f \in Formats :
         /\ m_bits = f[1]
         /\ n_bits = f[2]
         /\ a \in Values(f[1], f[2])
    /\ b = 0
    /\ pi_raw = 0
    /\ op = "none"
    /\ res = 0
    /\ pc = "idle"
    /\ angle = 0
    /\ emitted = NoEmit

Sqrt ==
    /\ op' = "sqrt"
    /\ LET r == q_sqrt(a, m_bits, n_bits)
       IN  IF r.dbz
           THEN pc' = "div_by_zero" /\ res' = res
           ELSE pc' = "done" /\ res' = r.guess
    /\ UNCHANGED <<m_bits, n_bits, pi_raw, a, b, angle, emitted>>

NextSqrt == Sqrt

SpecSqrt == InitSqrt /\ [][NextSqrt]_vars

\* C6: sqrt(x) is 0 for x <= 0; for x > 0 no Newton step divides by zero
\* and the result r satisfies |mul(r, r) - x| <= 9 raw units (single-digit
\* ULPs).
C6_SqrtWithinFewUlps ==
    op = "sqrt" =>
        /\ pc # "div_by_zero"
        /\ a <= 0 => res = 0
        /\ (a > 0 /\ n_bits >= 1) =>
               Abs(q_mul(res, res, m_bits, n_bits) - a) <= 9

(* ============================= Generators ============================== *)

\* (type)v for a value v of at most 32 bits
Cast(v, W) ==
    IF IntMin(W) <= v /\ v <= IntMax(W) THEN v ELSE ToSigned(v, W)

\* Q_MAX / Q_MIN of the math header: (type)((1LL << (total_bits-1)) - 1)
\* and (type)(-(1LL << (total_bits-1)))
Math_MAX(m, n) == Cast(2^((m + n + 1) - 1) - 1, StorageBits(m, n))
Math_MIN(m, n) == Cast(-(2^((m + n + 1) - 1)), StorageBits(m, n))

GenFormats == (0..MaxGenM) \X (0..MaxGenN)

NothingEmitted ==
    [header |-> NoEmit, math_header |-> NoEmit, cordic_c |-> NoEmit]

InitGen ==
    /\ \E f \in GenFormats :
         /\ m_bits = f[1]
         /\ n_bits = f[2]
    /\ a = 0
    /\ b = 0
    /\ pi_raw = 0
    /\ op = "none"
    /\ res = 0
    /\ pc = "idle"
    /\ angle = 0
    /\ emitted = NothingEmitted

\* generate_header(m, n): the storage type and the constants it writes
GenerateHeader ==
    /\ emitted' = [emitted EXCEPT !.header =
                     [kind |-> "header",
                      storage_bits |-> StorageBits(m_bits, n_bits),
                      ONE |-> 2^n_bits,
                      MAX |-> Q_MAX(m_bits, n_bits),
                      MIN |-> Q_MIN(m_bits, n_bits)]]
    /\ UNCHANGED <<m_bits, n_bits, pi_raw, op, a, b, res, pc, angle>>

\* generate_math_header(m, n): the constants it writes
GenerateMathHeader ==
    /\ emitted' = [emitted EXCEPT !.math_header =
                     [kind |-> "math_header",
                      MAX |-> Math_MAX(m_bits, n_bits),
                      MIN |-> Math_MIN(m_bits, n_bits)]]
    /\ UNCHANGED <<m_bits, n_bits, pi_raw, op, a, b, res, pc, angle>>

\* generate_cordic_c_file(m, n): the gain, the declared iteration count
\* and the initialisers written into cordic_atan_table
GenerateCordicCFile ==
    /\ emitted' = [emitted EXCEPT !.cordic_c =
                     [kind |-> "cordic_c",
                      CORDIC_K |-> generate_cordic_tables(n_bits).k_fixed,
                      CORDIC_ITERATIONS |-> CORDIC_ITERATIONS(n_bits),
                      cordic_atan_table |-> generate_cordic_tables(n_bits).atan_table]]
    /\ UNCHANGED <<m_bits, n_bits, pi_raw, op, a, b, res, pc, angle>>

NextGen == GenerateHeader \/ GenerateMathHeader \/ GenerateCordicCFile

SpecGen == InitGen /\ [][NextGen]_vars

\* C7: the MAX and MIN written by generate_header and by
\* generate_math_header both equal the bounds of the selected storage
\* type, so the two generators agree on the sentinels of a format.
C7_MaxMinAreStorageBounds ==
    LET W == StorageBits(m_bits, n_bits)
    IN  /\ emitted.header.kind = "header" =>
              (emitted.header.MAX = IntMax(W) /\ emitted.header.MIN = IntMin(W))
        /\ emitted.math_header.kind = "math_header" =>
              (emitted.math_header.MAX = IntMax(W) /\ emitted.math_header.MIN = IntMin(W))
        /\ (emitted.header.kind = "header" /\ emitted.math_header.kind = "math_header") =>
              (emitted.header.MAX = emitted.math_header.MAX
               /\ emitted.header.MIN = emitted.math_header.MIN)

\* C10: the number of initialisers written into cordic_atan_table is
\* min(n, 16), the declared CORDIC_ITERATIONS.
C10_TableLengthIsIterations ==
    emitted.cordic_c.kind = "cordic_c" =>
        /\ Len(emitted.cordic_c.cordic_atan_table) = Min(n_bits, 16)
        /\ Len(emitted.cordic_c.cordic_atan_table) = emitted.cordic_c.CORDIC_ITERATIONS

====
